---------------------------- MODULE Spec2Model ----------------------------
(***************************************************************************)
(* Check Mate (sreekaransrinath/checkmate): claim segmentation, the Sonar  *)
(* verification client, verdict resolution, the badge status and the       *)
(* background worker's checkTweet handler.                                  *)
(*                                                                         *)
(* Strings are sequences of one-character strings.  Numbers are records    *)
(* [k, v]: k = "fin" with v the value in hundredths (0.7 is 70), or        *)
(* k = "nan" / "inf" / "ninf" for the non-finite doubles.                  *)
(***************************************************************************)
EXTENDS Integers, Sequences, FiniteSets, TLC

VARIABLES
    splitText,      \* splitIntoClaims: the text argument
    splitCount,     \* the number of snippets splitText was put together from
    splitOut,       \* splitIntoClaims: the returned claims
    splitDone,      \* splitIntoClaims has been applied to splitText
    gvRaw,          \* getVerdict: the raw argument
    gvThreshold,    \* getVerdict: the threshold argument
    gvOut,          \* getVerdict: the returned verdict, "pending" before the call
    badgeIn,        \* getBadgeStatus: the verdicts argument
    badgeOut,       \* getBadgeStatus: the returned status, "pending" before the call
    clicks,         \* the clicks on "Check" buttons to come and done, in order
    settings,       \* chrome.storage.sync: the apiKey and threshold entries
    req,            \* the handleCheckTweet invocations, one per checkTweet message
    session,        \* chrome.storage.session: the lastResult entry
    badge,          \* the toolbar badge: the status last applied
    faults,         \* the oracle attempts and hand-off steps that have failed so far
    sonarClaim,     \* callSonar: the claim argument
    sonarKey,       \* callSonar: the apiKey argument
    sonarCall,      \* callSonar: the state of the call
    sonarFetches,   \* callSonar: the fetch calls made so far
    thStored,       \* getConfidenceThreshold: the stored threshold entry
    thOut,          \* getConfidenceThreshold: the returned threshold, "pending" before
    thSaved,        \* Options page: the slider value saved last, <<>> before a save
    dvTruth,        \* determineVerdict: the truth argument
    dvConfidence,   \* determineVerdict: the confidence argument
    dvOut,          \* determineVerdict: the returned verdict, "idle" before the call
    popup,          \* popup: the state shown and the result rendered
    tabUrl,         \* popup: the URL of the active tab
    buttons,        \* content script: status and loading flag of each tweet's button
    analysing       \* content script: the tweets sent to the worker and not completed

vars == <<splitText, splitCount, splitOut, splitDone, gvRaw, gvThreshold, gvOut, badgeIn, badgeOut,
          clicks, settings, req, session, badge, faults,
          sonarClaim, sonarKey, sonarCall, sonarFetches, thStored, thOut, thSaved,
          dvTruth, dvConfidence, dvOut, popup, tabUrl, buttons, analysing>>
splitVars == <<splitText, splitCount, splitOut, splitDone>>
verdictVars == <<gvRaw, gvThreshold, gvOut>>
badgeVars == <<badgeIn, badgeOut>>
workerVars == <<clicks, settings, req, session, badge, faults>>
sonarVars == <<sonarClaim, sonarKey, sonarCall, sonarFetches>>
thresholdVars == <<thStored, thOut, thSaved>>
determineVars == <<dvTruth, dvConfidence, dvOut>>
popupVars == <<popup, tabUrl>>
contentVars == <<buttons, analysing>>

(***************************************************************************)
(* Bounds of the model.                                                    *)
(***************************************************************************)
MaxSnippets == 4        \* snippets concatenated into a text given to splitIntoClaims
MaxVerdicts == 4        \* length of a verdict list given to getBadgeStatus
MaxCitations == 3       \* citations carried by a judgment given to getVerdict
MaxConfidence == 110    \* largest confidence given to determineVerdict
MaxTweets == 4          \* tweets on the page of the content script
MaxStored == 120        \* largest stored threshold, in hundredths, besides the percents
MaxFaults == 3          \* oracle attempts that fail or answer off the type, hand-off steps that fail

(***************************************************************************)
(* JavaScript strings                                                      *)
(***************************************************************************)
UpperLetters == <<"A","B","C","D","E","F","G","H","I","J","K","L","M",
                  "N","O","P","Q","R","S","T","U","V","W","X","Y","Z">>
LowerLetters == <<"a","b","c","d","e","f","g","h","i","j","k","l","m",
                  "n","o","p","q","r","s","t","u","v","w","x","y","z">>
Digits == {"0","1","2","3","4","5","6","7","8","9"}

Range(s) == {s[i] : i \in 1..Len(s)}

SpaceChars == {" ", "\n", "\t", "\r"}
WordChars == Range(UpperLetters) \cup Range(LowerLetters) \cup Digits \cup {"_"}
LowerOf == [c \in Range(UpperLetters) |->
               LowerLetters[CHOOSE i \in 1..Len(UpperLetters) : UpperLetters[i] = c]]

\* \s of a JavaScript regular expression (the members that occur in tweets)
IsSpace(c) == c \in SpaceChars
\* \d
IsDigit(c) == c \in Digits
\* \w
IsWordChar(c) == c \in WordChars

LowerChar(c) == IF c \in DOMAIN LowerOf THEN LowerOf[c] ELSE c

\* String.prototype.toLowerCase
ToLowerCase(s) == [i \in 1..Len(s) |-> LowerChar(s[i])]

\* String.prototype.trim
Trim(s) ==
    LET keep == {i \in 1..Len(s) : ~IsSpace(s[i])}
    IN  IF keep = {} THEN <<>>
        ELSE LET lo == CHOOSE i \in keep : \A j \in 1..(i - 1) : IsSpace(s[j])
                 hi == CHOOSE i \in keep : \A j \in (i + 1)..Len(s) : IsSpace(s[j])
             IN  SubSeq(s, lo, hi)

\* String.prototype.startsWith
StartsWith(s, p) == Len(s) >= Len(p) /\ SubSeq(s, 1, Len(p)) = p

\* text.replace(/\s+/g, " "): every maximal whitespace run becomes one space.
\* The characters kept are the non-space ones and the first space of each run.
CollapseWhitespace(s) ==
    LET marked == [i \in 1..Len(s) |->
                      IF ~IsSpace(s[i]) THEN <<s[i], TRUE>>
                      ELSE <<" ", i = 1 \/ ~IsSpace(s[i - 1])>>]
        kept == SelectSeq(marked, LAMBDA m : m[2])
    IN  [k \in 1..Len(kept) |-> kept[k][1]]

(***************************************************************************)
(* splitIntoClaims (common/claims.ts)                                      *)
(***************************************************************************)
MAX_CLAIMS == 5
MIN_CLAIM_LENGTH == 10

ABBREVIATIONS ==
    { <<"m","r",".">>, <<"m","r","s",".">>, <<"m","s",".">>, <<"d","r",".">>,
      <<"p","r","o","f",".">>, <<"s","r",".">>, <<"j","r",".">>,
      <<"u",".","s",".">>, <<"u",".","k",".">>, <<"e",".","u",".">>,
      <<"s","t",".">>, <<"v","s",".">>, <<"e","t","c",".">>,
      <<"i",".","e",".">>, <<"e",".","g",".">>,
      <<"j","a","n",".">>, <<"f","e","b",".">>, <<"m","a","r",".">>,
      <<"a","p","r",".">>, <<"j","u","n",".">>, <<"j","u","l",".">>,
      <<"a","u","g",".">>, <<"s","e","p","t",".">>, <<"o","c","t",".">>,
      <<"n","o","v",".">>, <<"d","e","c",".">> }

IsTerminator(c) == c \in {".", "!", "?"}

\* \b at position p of s: between s[p-1] and s[p], exactly one is a word character
WordBoundaryAt(s, p) ==
    LET before == p > 1 /\ IsWordChar(s[p-1])
        after  == p <= Len(s) /\ IsWordChar(s[p])
    IN  before # after

\* lowerBuffer.match(/(\b[^\s]+\.)\s*$/): group 1 of the leftmost match, <<>>
\* when there is no match.  A match ends with a period followed only by spaces
\* up to the end, so its period is the last non-space character e of s; it
\* starts at a word boundary p < e with no space in p..e-1, and the leftmost
\* such p is the one the regular expression engine finds.
AbbrevMatch(s) ==
    LET solid == {i \in 1..Len(s) : ~IsSpace(s[i])}
        e == IF solid = {} THEN 0
             ELSE CHOOSE i \in solid : \A j \in (i + 1)..Len(s) : IsSpace(s[j])
        gaps == {i \in 1..e : IsSpace(s[i])}
        first == IF gaps = {} THEN 1
                 ELSE 1 + CHOOSE i \in gaps : \A j \in (i + 1)..e : ~IsSpace(s[j])
        starts == {p \in first..(e - 1) : WordBoundaryAt(s, p)}
    IN  IF e = 0 THEN <<>>
        ELSE IF s[e] # "." \/ starts = {} THEN <<>>
        ELSE SubSeq(s, CHOOSE p \in starts : \A q \in first..(p - 1) : q \notin starts, e)

\* the abbreviation guard of the scan loop
AbbreviationGuard(buffer) ==
    LET m == AbbrevMatch(ToLowerCase(buffer))
    IN  m # <<>> /\ m \in ABBREVIATIONS

\* DECIMAL_NUMBER_BEFORE_PERIOD.test(buffer), the regular expression /\d+\.\d+$/:
\* the buffer ends with digits, a period, digits
DECIMAL_NUMBER_BEFORE_PERIOD(buffer) ==
    \E d \in 2..(Len(buffer) - 1) :
        /\ buffer[d] = "."
        /\ IsDigit(buffer[d - 1])
        /\ \A j \in (d + 1)..Len(buffer) : IsDigit(buffer[j])

\* the while loop after a sentence is pushed: the index of the last space skipped
RECURSIVE SkipSpaces(_, _)
SkipSpaces(cleaned, i) ==
    IF i + 1 <= Len(cleaned) /\ IsSpace(cleaned[i + 1])
    THEN SkipSpaces(cleaned, i + 1)
    ELSE i

\* the indices of cleaned, in order, at which the loop does not "continue" at
\* its first test: the characters . ! ?
TerminatorIndices(cleaned) ==
    SelectSeq([i \in 1..Len(cleaned) |-> i], LAMBDA i : IsTerminator(cleaned[i]))

\* the for loop over cleaned, seen at its terminators: terms is
\* TerminatorIndices(cleaned), k the next terminator to look at, start the index
\* at which the buffer was last emptied (the buffer at index i is
\* cleaned[start..i]); the result is <<buffer, rawSentences>> after the last
\* character
RECURSIVE ScanFrom(_, _, _, _, _)
ScanFrom(cleaned, terms, k, start, raw) ==
    IF k > Len(terms) THEN <<SubSeq(cleaned, start, Len(cleaned)), raw>>
    ELSE LET i == terms[k]
             buffer == SubSeq(cleaned, start, i)
         IN  IF AbbreviationGuard(buffer)
             THEN ScanFrom(cleaned, terms, k + 1, start, raw)
             ELSE IF DECIMAL_NUMBER_BEFORE_PERIOD(buffer)
             THEN ScanFrom(cleaned, terms, k + 1, start, raw)
             ELSE ScanFrom(cleaned, terms, k + 1, SkipSpaces(cleaned, i) + 1,
                           Append(raw, Trim(buffer)))

\* cleaned = text.replace(/\s+/g, " ").trim()
Cleaned(text) == Trim(CollapseWhitespace(text))

\* the loop without the push of the trailing buffer
RawSentencesNoTrailing(text) ==
    LET cleaned == Cleaned(text)
        r == ScanFrom(cleaned, TerminatorIndices(cleaned), 1, 1, <<>>)
    IN  IF Len(text) = 0 \/ Len(cleaned) = 0 THEN <<>> ELSE r[2]

\* rawSentences after the loop and the push of the trailing buffer
RawSentences(text) ==
    LET cleaned == Cleaned(text)
        r == ScanFrom(cleaned, TerminatorIndices(cleaned), 1, 1, <<>>)
    IN  IF Len(text) = 0 \/ Len(cleaned) = 0 THEN <<>>
        ELSE IF Len(Trim(r[1])) > 0 THEN Append(r[2], Trim(r[1])) ELSE r[2]

SelectSeqLen(s) == SelectSeq(s, LAMBDA x : Len(x) >= MIN_CLAIM_LENGTH)

\* rawSentences.filter((s) => s.length >= 10)
Filtered(text) == SelectSeqLen(RawSentences(text))

\* stable insertion of index k into a list of indices in ascending order of
\* key: k goes before the first index whose key is greater
RECURSIVE InsertBy(_, _, _, _)
InsertBy(key, sorted, k, pos) ==
    IF pos > Len(sorted) THEN Append(sorted, k)
    ELSE IF key[k] < key[sorted[pos]]
         THEN SubSeq(sorted, 1, pos - 1) \o <<k>> \o SubSeq(sorted, pos, Len(sorted))
         ELSE InsertBy(key, sorted, k, pos + 1)

\* Array.prototype.sort (stable) of a list of indices with a comparator
\* (a, b) => key[a] - key[b]
RECURSIVE SortBy(_, _, _)
SortBy(key, items, n) ==
    IF n = 0 THEN <<>>
    ELSE InsertBy(key, SortBy(key, items, n - 1), items[n], 1)

\* meta.sort((a, b) => b.len - a.len): longest first, original order among equals
LongestFirst(filtered) ==
    SortBy([i \in 1..Len(filtered) |-> 0 - Len(filtered[i])],
           [i \in 1..Len(filtered) |-> i], Len(filtered))

\* the slice without the sort back to the order of the text
TopMutant(filtered) ==
    SubSeq(LongestFirst(filtered), 1, MAX_CLAIMS)

\* meta.slice(0, MAX_CLAIMS).sort((a, b) => a.idx - b.idx)
Top(filtered) ==
    LET cut == SubSeq(LongestFirst(filtered), 1, MAX_CLAIMS)
    IN  SortBy([i \in 1..Len(filtered) |-> i], cut, Len(cut))

\* the truncation step: the number of claims returned at most
Truncate(filtered) ==
    IF Len(filtered) <= MAX_CLAIMS THEN filtered
    ELSE LET top == Top(filtered) IN [j \in 1..Len(top) |-> filtered[top[j]]]

\* splitIntoClaims without the filter on the length
NoLengthFilterMutant(text) == Truncate(RawSentences(text))

\* splitIntoClaims(text): the claims of a tweet
splitIntoClaims(text) == Truncate(Filtered(text))


(***************************************************************************)
(* JavaScript values and numbers                                           *)
(***************************************************************************)
Fin(v) == [k |-> "fin", v |-> v]
NaN == [k |-> "nan", v |-> 0]
PosInf == [k |-> "inf", v |-> 0]
NegInf == [k |-> "ninf", v |-> 0]

\* a < b on doubles: false as soon as one side is NaN
Lt(a, b) ==
    /\ a.k # "nan" /\ b.k # "nan"
    /\ \/ a.k = "ninf" /\ b.k # "ninf"
       \/ b.k = "inf" /\ a.k # "inf"
       \/ a.k = "fin" /\ b.k = "fin" /\ a.v < b.v

\* Math.max, Math.min: NaN when one argument is NaN
MathMax(a, b) == IF a.k = "nan" \/ b.k = "nan" THEN NaN ELSE IF Lt(a, b) THEN b ELSE a
MathMin(a, b) == IF a.k = "nan" \/ b.k = "nan" THEN NaN ELSE IF Lt(b, a) THEN b ELSE a

JsUndefined == [t |-> "undefined", s |-> <<>>, n |-> Fin(0)]
JsString(s) == [t |-> "string", s |-> s, n |-> Fin(0)]
JsNumber(n) == [t |-> "number", s |-> <<>>, n |-> n]
JsBoolean(b) == [t |-> "boolean", s |-> <<>>, n |-> Fin(IF b THEN 1 ELSE 0)]
\* an array of the given length (n.v is the length, not hundredths)
JsArray(len) == [t |-> "array", s |-> <<>>, n |-> Fin(len)]

\* ToBoolean: what !x tests
Truthy(x) ==
    CASE x.t = "undefined" -> FALSE
      [] x.t = "string" -> Len(x.s) > 0
      [] x.t = "number" -> x.n.k \in {"inf", "ninf"} \/ (x.n.k = "fin" /\ x.n.v # 0)
      [] x.t = "boolean" -> x.n.v = 1
      [] OTHER -> TRUE

\* Number.isFinite: no coercion, false for every non-number
NumberIsFinite(x) == x.t = "number" /\ x.n.k = "fin"

(***************************************************************************)
(* getVerdict (common/verdict.ts)                                          *)
(***************************************************************************)
sFalse == <<"f","a","l","s","e">>
sTrue == <<"t","r","u","e">>
sUnclear == <<"u","n","c","l","e","a","r">>

HARD_FALSE_CITATIONS == 3

\* determineVerdict with the confidence 75 itself taken as too low
determineVerdictAtMost(truth, confidence) ==
    LET clamped == MathMax(Fin(0), MathMin(Fin(100), confidence))
    IN  IF Lt(clamped, Fin(75)) \/ clamped = Fin(75) THEN "unclear"
        ELSE IF truth = sTrue THEN "true"
        ELSE IF truth = sFalse THEN "false"
        ELSE "unclear"

\* determineVerdict(truth, confidence), with the confidence in units (0 to 100)
determineVerdict(truth, confidence) ==
    LET clamped == MathMax(Fin(0), MathMin(Fin(100), confidence))
    IN  IF Lt(clamped, Fin(75)) THEN "unclear"
        ELSE IF truth = sTrue THEN "true"
        ELSE IF truth = sFalse THEN "false"
        ELSE "unclear"

\* Math.min(Math.max(threshold, 0), 1)
ClampThreshold(threshold) == MathMin(MathMax(threshold, Fin(0)), Fin(100))

\* the hard "false" override: verdict === "false" && Array.isArray(raw.citations)
\* && raw.citations.length >= 3
HardFalse(verdict, raw) ==
    /\ verdict = sFalse
    /\ raw.citations.t = "array"
    /\ raw.citations.n.v >= HARD_FALSE_CITATIONS

\* the confidence guard-rail: Number.isFinite(raw.confidence) &&
\* raw.confidence < clampedThreshold
ConfidenceGuard(raw, clampedThreshold) ==
    NumberIsFinite(raw.confidence) /\ Lt(raw.confidence.n, clampedThreshold)

\* the switch on the normalised verdict string
LabelFallback(verdict) ==
    CASE verdict = sTrue -> "true"
      [] verdict = sFalse -> "false"
      [] OTHER -> "unclear"

\* getVerdict with the guard-rail tested before the override
getVerdictGuardFirst(raw, threshold) ==
    IF raw.verdict.t # "string" THEN "TypeError"
    ELSE LET verdict == ToLowerCase(Trim(raw.verdict.s))
         IN  IF ConfidenceGuard(raw, ClampThreshold(threshold)) THEN "unclear"
             ELSE IF HardFalse(verdict, raw) THEN "false"
             ELSE LabelFallback(verdict)

\* getVerdict(raw, threshold): "true", "false" or "unclear"; "TypeError" when
\* (raw.verdict as string).trim() throws because raw.verdict is no string
getVerdict(raw, threshold) ==
    IF raw.verdict.t # "string" THEN "TypeError"
    ELSE LET verdict == ToLowerCase(Trim(raw.verdict.s))
         IN  IF HardFalse(verdict, raw) THEN "false"
             ELSE IF ConfidenceGuard(raw, ClampThreshold(threshold)) THEN "unclear"
             ELSE LabelFallback(verdict)

(***************************************************************************)
(* getBadgeStatus (background/badge.ts)                                    *)
(***************************************************************************)
\* getBadgeStatus with verdicts.some in place of verdicts.every
getBadgeStatusSome(verdicts) ==
    IF Len(verdicts) = 0 THEN "null"
    ELSE IF \E i \in 1..Len(verdicts) : verdicts[i] = "false" THEN "error"
    ELSE IF \E i \in 1..Len(verdicts) : verdicts[i] = "true" THEN "success"
    ELSE "unclear"

\* getBadgeStatus(verdicts): "null" stands for null
getBadgeStatus(verdicts) ==
    IF Len(verdicts) = 0 THEN "null"
    ELSE IF \E i \in 1..Len(verdicts) : verdicts[i] = "false" THEN "error"
    ELSE IF \A i \in 1..Len(verdicts) : verdicts[i] = "true" THEN "success"
    ELSE "unclear"


(***************************************************************************)
(* Texts given to splitIntoClaims: concatenations of these snippets        *)
(***************************************************************************)
\* 'Dr. Smith agrees. '
SnipAbbrev ==
    <<"D","r","."," ","S","m","i","t","h"," ","a","g","r","e","e","s","."," ">>
\* 'It grew 3.14. '
SnipDecimal ==
    <<"I","t"," ","g","r","e","w"," ","3",".","1","4","."," ">>
\* 'No way! '
SnipShort ==
    <<"N","o"," ","w","a","y","!"," ">>
\* 'The U.S. economy grew by 3%. '
SnipCountry ==
    <<"T","h","e"," ","U",".","S","."," ","e","c","o","n","o","m","y"," ","g","r","e",
      "w"," ","b","y"," ","3","%","."," ">>
\* ' \n'
SnipBlank ==
    <<" ","\n">>
\* 'plain words '
SnipPlain ==
    <<"p","l","a","i","n"," ","w","o","r","d","s"," ">>
\* 'Is the moon cheese? Cats are mammals. '
SnipTwo ==
    <<"I","s"," ","t","h","e"," ","m","o","o","n"," ","c","h","e","e","s","e","?"," ",
      "C","a","t","s"," ","a","r","e"," ","m","a","m","m","a","l","s","."," ">>

\* 'word '
SnipWord ==
    <<"w","o","r","d"," ">>

Snippets ==
    {SnipAbbrev, SnipDecimal, SnipShort, SnipCountry, SnipBlank, SnipPlain, SnipTwo,
     SnipWord}

(***************************************************************************)
(* The Sonar client (common/sonar.ts): parseResponse and the result of one *)
(* request                                                                 *)
(***************************************************************************)
MAX_CONCURRENT_REQUESTS == 3
MAX_RETRIES == 2

\* 'Failed to fact-check this claim'
sFailed ==
    <<"F","a","i","l","e","d"," ","t","o"," ","f","a","c","t","-","c","h","e","c","k",
      " ","t","h","i","s"," ","c","l","a","i","m">>
sSkPrefix == <<"s","k","-">>

\* the object JSON.parse(content) gives; a key that is absent is JsUndefined
Parsed(verdict, explanation, citations, confidence, claim) ==
    [verdict |-> verdict, explanation |-> explanation, citations |-> citations,
     confidence |-> confidence, claim |-> claim]

NoJudgment == Parsed(JsUndefined, JsUndefined, JsUndefined, JsUndefined, JsUndefined)

\* parseResponse(raw) returns: choices is a non-empty array and the parsed content
\* has a truthy verdict, a truthy explanation, a citations array and a confidence
\* of type number; it throws otherwise
parseResponseOk(raw) ==
    /\ raw.choices >= 1
    /\ Truthy(raw.content.verdict)
    /\ Truthy(raw.content.explanation)
    /\ raw.content.citations.t = "array"
    /\ raw.content.confidence.t = "number"

\* an attempt of makeRequest returns: response.ok and parseResponse returns
AttemptOk(raw) == raw.ok /\ parseResponseOk(raw)

\* return { claim, ...result }: a claim key of the parsed object wins
makeRequestResult(claim, result) ==
    [result EXCEPT !.claim = IF result.claim.t = "undefined" THEN JsString(claim)
                              ELSE result.claim]

\* the input validation without the test of the claim
callSonarAcceptsAnyClaim(claim, apiKey) ==
    apiKey.t = "string" /\ StartsWith(apiKey.s, sSkPrefix)

\* the input validation of callSonar: claim?.trim() and apiKey?.startsWith("sk-")
callSonarAccepts(claim, apiKey) ==
    /\ Len(Trim(claim)) > 0
    /\ apiKey.t = "string" /\ StartsWith(apiKey.s, sSkPrefix)

(***************************************************************************)
(* The background worker (background/index.ts): settings and the verdict   *)
(* of one claim                                                            *)
(***************************************************************************)
DEFAULT_CONFIDENCE_THRESHOLD == Fin(70)

\* getApiKey returns: !apiKey?.startsWith("sk-") is false
getApiKeyOk(stored) == stored.t = "string" /\ StartsWith(stored.s, sSkPrefix)

\* getConfidenceThreshold without the clamp
getConfidenceThresholdUnclamped(stored) ==
    IF stored.t = "number" THEN stored.n ELSE DEFAULT_CONFIDENCE_THRESHOLD

\* getConfidenceThreshold: the stored number clamped to [0.5, 0.9], or the default
getConfidenceThreshold(stored) ==
    IF stored.t = "number" THEN MathMin(MathMax(stored.n, Fin(50)), Fin(90))
    ELSE DEFAULT_CONFIDENCE_THRESHOLD

ClaimVerdict(claim, verdict, explanation, citations, confidence) ==
    [claim |-> claim, verdict |-> verdict, explanation |-> explanation,
     citations |-> citations, confidence |-> confidence]

\* the slot of Promise.all's result array whose promise has not settled
NoVerdict == ClaimVerdict(JsUndefined, "pending", JsUndefined, JsUndefined, JsUndefined)

\* the catch branch of the mapper, with the placeholder of the first sonar stub
StubClaimVerdict(claim) ==
    ClaimVerdict(JsString(claim), "unclear", JsString(sFailed), JsArray(1), JsNumber(Fin(50)))

\* the catch branch of the mapper
FailedClaimVerdict(claim) ==
    ClaimVerdict(JsString(claim), "unclear", JsString(sFailed), JsArray(0), JsNumber(Fin(0)))

\* the try branch of the mapper: { ...sonarResult, verdict: getVerdict(...) }, and
\* the catch branch when getVerdict throws
MapperResolved(claim, sonarResult, threshold) ==
    LET verdict == getVerdict(sonarResult, threshold)
    IN  IF verdict = "TypeError" THEN FailedClaimVerdict(claim)
        ELSE ClaimVerdict(sonarResult.claim, verdict, sonarResult.explanation,
                          sonarResult.citations, sonarResult.confidence)

\* the catch branch of the mapper when callSonar rejects
MapperRejected(claim) == FailedClaimVerdict(claim)

\* the message notifyContentScript hands to chrome.tabs.sendMessage
analysisCompleteMessage(success) == [type |-> "analysisComplete", success |-> success]

\* notifyContentScript without the sendMessage call
NotifyDropped(sent, success) == sent

\* notifyContentScript(tabId, success): one more analysisComplete message sent
notifyContentScript(sent, success) == Append(sent, success)

\* the result assembled by handleCheckTweet
AnalysisResult(tweetId, text, claims, verdicts) ==
    [tweetId |-> tweetId, text |-> text, claims |-> claims, verdicts |-> verdicts]

NoResult == AnalysisResult(0, <<>>, <<>>, <<>>)

\* a handler invocation that has not been started
IdleRequest ==
    [pc |-> "idle", tab |-> 0, tweetId |-> 0, text |-> <<>>, claims |-> <<>>,
     threshold |-> DEFAULT_CONFIDENCE_THRESHOLD, calls |-> <<>>, verdicts |-> <<>>,
     sent |-> <<>>, store |-> "none", badgeSet |-> "none", message |-> "none",
     response |-> "none"]

Requests == {1, 2}

WorkerIdle ==
    /\ clicks = <<>>
    /\ settings = [apiKey |-> JsUndefined, threshold |-> JsUndefined]
    /\ req = [r \in Requests |-> IdleRequest]
    /\ session = [lastResult |-> NoResult]
    /\ badge = "null"
    /\ faults = 0

\* callSonar has not been called
NoCall == [st |-> "idle", attempt |-> 0, judgment |-> NoJudgment, slots |-> 0]

SonarIdle ==
    /\ sonarClaim = <<>> /\ sonarKey = JsUndefined /\ sonarCall = NoCall
    /\ sonarFetches = 0

\* getConfidenceThreshold has not returned
NoThreshold == [k |-> "idle", v |-> 0]

ThresholdIdle == thStored = JsUndefined /\ thOut = NoThreshold /\ thSaved = <<>>

DetermineIdle == dvTruth = <<>> /\ dvConfidence = NaN /\ dvOut = "idle"

\* the popup before initPopup runs
ClosedPopup == [state |-> "closed", tweetText |-> <<>>, cards |-> <<>>]

PopupIdle == popup = ClosedPopup /\ tabUrl = JsUndefined

ContentIdle == buttons = <<>> /\ analysing = {}

OthersIdle == DetermineIdle /\ PopupIdle /\ ContentIdle

(***************************************************************************)
(* SpecSplit: splitIntoClaims applied to every text of at most MaxSnippets *)
(* snippets                                                                *)
(***************************************************************************)
VerdictIdle == gvRaw = JsUndefined /\ gvThreshold = NaN /\ gvOut = "idle"
BadgeIdle == badgeIn = <<>> /\ badgeOut = "idle"
SplitIdle == splitText = <<>> /\ splitCount = 0 /\ splitOut = <<>> /\ splitDone = FALSE

SplitInit ==
    /\ splitText = <<>> /\ splitCount = 0 /\ splitOut = <<>> /\ splitDone = FALSE
    /\ VerdictIdle /\ BadgeIdle /\ WorkerIdle /\ SonarIdle /\ ThresholdIdle /\ OthersIdle

\* the caller puts one more snippet at the end of the text
SplitAppend(sn) ==
    /\ ~splitDone
    /\ splitCount < MaxSnippets
    /\ splitText' = splitText \o sn
    /\ splitCount' = splitCount + 1
    /\ UNCHANGED <<splitOut, splitDone>>
    /\ UNCHANGED <<verdictVars, badgeVars, workerVars, sonarVars, thresholdVars, determineVars, popupVars, contentVars>>

\* claims = splitIntoClaims(text)
SplitCall ==
    /\ ~splitDone
    /\ splitOut' = splitIntoClaims(splitText)
    /\ splitDone' = TRUE
    /\ UNCHANGED <<splitText, splitCount>>
    /\ UNCHANGED <<verdictVars, badgeVars, workerVars, sonarVars, thresholdVars, determineVars, popupVars, contentVars>>

SplitNext == (\E sn \in Snippets : SplitAppend(sn)) \/ SplitCall

SpecSplit == SplitInit /\ [][SplitNext]_vars

(***************************************************************************)
(* SpecVerdict: getVerdict applied to every judgment and threshold below   *)
(***************************************************************************)
LabelInputs ==
    { JsString(sTrue), JsString(sFalse), JsString(sUnclear),
      JsString(<<" ","F","a","l","s","e","\n">>), JsString(<<"T","R","U","E"," ">>),
      JsString(<<"b","o","g","u","s">>), JsString(<<>>),
      JsNumber(Fin(100)), JsBoolean(TRUE), JsUndefined }

CitationInputs == {JsArray(n) : n \in 0..MaxCitations} \cup {JsUndefined}

NumberInputs ==
    { Fin(-10), Fin(0), Fin(20), Fin(50), Fin(69), Fin(70), Fin(90), Fin(100), Fin(150),
      NaN, PosInf, NegInf }

ConfidenceInputs == {JsNumber(n) : n \in NumberInputs} \cup {JsUndefined}

VerdictInit ==
    /\ gvRaw \in [verdict : LabelInputs, citations : CitationInputs,
                  confidence : ConfidenceInputs]
    /\ gvThreshold \in NumberInputs
    /\ gvOut = "pending"
    /\ SplitIdle /\ BadgeIdle /\ WorkerIdle /\ SonarIdle /\ ThresholdIdle /\ OthersIdle

\* verdict = getVerdict(raw, threshold)
VerdictCall ==
    /\ gvOut = "pending"
    /\ gvOut' = getVerdict(gvRaw, gvThreshold)
    /\ UNCHANGED <<gvRaw, gvThreshold>>
    /\ UNCHANGED <<splitVars, badgeVars, workerVars, sonarVars, thresholdVars, determineVars, popupVars, contentVars>>

VerdictNext == VerdictCall

SpecVerdict == VerdictInit /\ [][VerdictNext]_vars

(***************************************************************************)
(* SpecBadge: getBadgeStatus applied to every list of at most MaxVerdicts  *)
(* verdicts                                                                *)
(***************************************************************************)
Verdicts == {"true", "false", "unclear"}

BadgeInit ==
    /\ badgeIn = <<>> /\ badgeOut = "pending"
    /\ SplitIdle /\ VerdictIdle /\ WorkerIdle /\ SonarIdle /\ ThresholdIdle /\ OthersIdle

\* one more verdict in the list handed to getBadgeStatus
BadgeAppend(v) ==
    /\ badgeOut = "pending"
    /\ Len(badgeIn) < MaxVerdicts
    /\ badgeIn' = Append(badgeIn, v)
    /\ UNCHANGED badgeOut
    /\ UNCHANGED <<splitVars, verdictVars, workerVars, sonarVars, thresholdVars, determineVars, popupVars, contentVars>>

\* status = getBadgeStatus(verdicts)
BadgeCall ==
    /\ badgeOut = "pending"
    /\ badgeOut' = getBadgeStatus(badgeIn)
    /\ UNCHANGED badgeIn
    /\ UNCHANGED <<splitVars, verdictVars, workerVars, sonarVars, thresholdVars, determineVars, popupVars, contentVars>>

BadgeNext == (\E v \in Verdicts : BadgeAppend(v)) \/ BadgeCall

SpecBadge == BadgeInit /\ [][BadgeNext]_vars

(***************************************************************************)
(* Spec: the background worker serving checkTweet messages.  A step is one *)
(* task of the service worker's event loop with the microtasks it runs.    *)
(***************************************************************************)
\* 'Is the moon cheese? Cats are mammals. Dr. Smith agrees. It grew 3.14. plain words '
TweetFive == [tweetId |-> 5, text |-> SnipTwo \o SnipAbbrev \o SnipDecimal \o SnipPlain]
TweetTwo == [tweetId |-> 2, text |-> SnipTwo]
TweetOne == [tweetId |-> 1, text |-> SnipAbbrev]
TweetNone == [tweetId |-> 9, text |-> SnipShort \o SnipBlank]

\* splitIntoClaims on the texts of the tweets, computed once
claimsOfTweet ==
    [text \in {TweetFive.text, TweetTwo.text, TweetOne.text, TweetNone.text} |->
        splitIntoClaims(text)]

\* the clicks on "Check" buttons of a session, in the order the background
\* receives their messages
Click(tab, tw) == [tab |-> tab, tweetId |-> tw.tweetId, text |-> tw.text]
ShortSessions ==
    { <<Click(1, TweetTwo)>>,
      <<Click(1, TweetOne), Click(1, TweetOne)>>,
      <<Click(1, TweetNone), Click(2, TweetOne)>> }
Sessions ==
    ShortSessions \cup
    { <<Click(1, TweetFive)>>,
      <<Click(1, TweetTwo), Click(1, TweetOne)>>,
      <<Click(1, TweetOne), Click(2, TweetTwo)>> }

\* the bodies the oracle answers with
sExplanation == <<"o","k">>
RawTrue ==
    [ok |-> TRUE, choices |-> 1,
     content |-> Parsed(JsString(sTrue), JsString(sExplanation), JsArray(1),
                        JsNumber(Fin(80)), JsUndefined)]
RawHardFalse ==
    [ok |-> TRUE, choices |-> 1,
     content |-> Parsed(JsString(<<" ","F","a","l","s","e","\n">>), JsString(sExplanation),
                        JsArray(3), JsNumber(Fin(20)), JsUndefined)]
RawOtherClaim ==
    [ok |-> TRUE, choices |-> 1,
     content |-> Parsed(JsString(sUnclear), JsString(sExplanation), JsArray(0),
                        JsNumber(Fin(95)), JsString(<<"x">>))]
RawBooleanLabel ==
    [ok |-> TRUE, choices |-> 1,
     content |-> Parsed(JsBoolean(TRUE), JsString(sExplanation), JsArray(0),
                        JsNumber(Fin(95)), JsUndefined)]
RawHttpError == [RawTrue EXCEPT !.ok = FALSE]
RawNoChoices == [RawTrue EXCEPT !.choices = 0]
RawNoCitations == [RawTrue EXCEPT !.content.citations = JsUndefined]
OracleResponses ==
    {RawTrue, RawHardFalse, RawOtherClaim, RawBooleanLabel, RawHttpError, RawNoChoices,
     RawNoCitations}

\* an answer that is no judgment, or a judgment outside the SonarResponse type
Faulty(raw) ==
    \/ ~AttemptOk(raw)
    \/ raw.content.verdict.t # "string"
    \/ raw.content.claim.t # "undefined"

\* the Options page saves a key only if it starts with "sk-"
StoredApiKeys == {JsUndefined, JsString(<<"s","k","-","1">>)}
StoredThresholds == {JsUndefined, JsNumber(Fin(8000))}

\* the worker before the first message
WorkerStart ==
    /\ settings \in [apiKey : StoredApiKeys, threshold : StoredThresholds]
    /\ req = [r \in Requests |-> IdleRequest]
    /\ session = [lastResult |-> NoResult]
    /\ badge = "null"
    /\ faults = 0
    /\ SplitIdle /\ VerdictIdle /\ BadgeIdle /\ SonarIdle /\ ThresholdIdle /\ OthersIdle

Init == clicks \in Sessions /\ WorkerStart

ShortInit == clicks \in ShortSessions /\ WorkerStart

Settled(rq) == \A i \in 1..Len(rq.verdicts) : rq.verdicts[i] # NoVerdict

\* a catch block that signals success
CatchSignalsSuccess(rq) ==
    [rq EXCEPT !.pc = "failNotify", !.sent = notifyContentScript(@, TRUE),
               !.message = "pending"]

\* the catch block of handleCheckTweet: await notifyContentScript(tab.id, false)
Catch(rq) ==
    [rq EXCEPT !.pc = "failNotify", !.sent = notifyContentScript(@, FALSE),
               !.message = "pending"]

\* after Promise.all(claims.map(...)) has resolved: the result is assembled and
\* storeResult, notifyContentScript(tab.id, true) and setGlobalBadge are called
Handoff(rq) ==
    IF rq.pc = "verifying" /\ Settled(rq)
    THEN [rq EXCEPT !.pc = "handoff", !.store = "pending",
                    !.sent = notifyContentScript(@, TRUE), !.message = "pending",
                    !.badgeSet = "pending"]
    ELSE rq

\* after the three promises of the hand-off have resolved: handleCheckTweet returns
Return(rq) ==
    IF rq.pc = "handoff" /\ rq.store = "done" /\ rq.message = "done" /\ rq.badgeSet = "done"
    THEN [rq EXCEPT !.pc = "done"]
    ELSE rq

\* the content script of a tab sends checkTweet; the handler starts reading the
\* settings
CheckTweet(r) ==
    /\ req[r].pc = "idle"
    /\ r <= Len(clicks)
    /\ \A q \in 1..(r - 1) : req[q].pc # "idle"
    /\ req' = [req EXCEPT ![r] = [IdleRequest EXCEPT !.pc = "settings", !.tab = clicks[r].tab,
                                     !.tweetId = clicks[r].tweetId,
                                     !.text = clicks[r].text]]
    /\ UNCHANGED <<clicks, settings, session, badge, faults>>
    /\ UNCHANGED <<splitVars, verdictVars, badgeVars, sonarVars, thresholdVars, determineVars, popupVars, contentVars>>


\* callSonar(claim, apiKey) up to its first await: the validation, a limiter of its
\* own (pLimit(MAX_CONCURRENT_REQUESTS), with this call as its only job) and the
\* first fetch; slots is the activeCount of that limiter
callSonar(claim, apiKey) ==
    IF callSonarAccepts(claim, apiKey) /\ 0 < MAX_CONCURRENT_REQUESTS
    THEN [st |-> "running", attempt |-> 1, judgment |-> NoJudgment, slots |-> 1]
    ELSE [st |-> "rejected", attempt |-> 0, judgment |-> NoJudgment, slots |-> 0]

\* the settings have been read: the credential is tested, the text is split and
\* callSonar is called for every claim
ReadSettings(r) ==
    /\ req[r].pc = "settings"
    /\ LET rq == req[r]
           claims == claimsOfTweet[rq.text]
           calls == [i \in 1..Len(claims) |-> callSonar(claims[i], settings.apiKey)]
       IN  req' = [req EXCEPT ![r] =
                IF ~getApiKeyOk(settings.apiKey) \/ Len(claims) = 0 THEN Catch(rq)
                ELSE Handoff([rq EXCEPT
                        !.pc = "verifying",
                        !.threshold = getConfidenceThreshold(settings.threshold),
                        !.claims = claims,
                        !.calls = calls,
                        !.verdicts = [i \in 1..Len(claims) |->
                                        IF calls[i].st = "rejected"
                                        THEN MapperRejected(claims[i]) ELSE NoVerdict]])]
    /\ UNCHANGED <<clicks, settings, session, badge, faults>>
    /\ UNCHANGED <<splitVars, verdictVars, badgeVars, sonarVars, thresholdVars, determineVars, popupVars, contentVars>>

\* an attempt has returned a judgment: callSonar resolves and the mapper resolves
AttemptReturned(rq, i, result) ==
    LET sonarResult == makeRequestResult(rq.claims[i], result)
    IN  Handoff([rq EXCEPT
            !.calls[i] = [st |-> "resolved", attempt |-> 0, judgment |-> sonarResult,
                          slots |-> 0],
            !.verdicts[i] = MapperResolved(rq.claims[i], sonarResult, rq.threshold)])

\* a limiter that is not told when the call has failed for good
AttemptThrewKeepsSlot(rq, i) ==
    IF rq.calls[i].attempt <= MAX_RETRIES
    THEN [rq EXCEPT !.calls[i].st = "backoff"]
    ELSE Handoff([rq EXCEPT !.calls[i] = [st |-> "rejected", attempt |-> 0,
                                          judgment |-> NoJudgment, slots |-> 1],
                            !.verdicts[i] = MapperRejected(rq.claims[i])])

\* pRetry with one retry too many
AttemptThrewOneMore(rq, i) ==
    IF rq.calls[i].attempt <= MAX_RETRIES + 1
    THEN [rq EXCEPT !.calls[i].st = "backoff"]
    ELSE Handoff([rq EXCEPT !.calls[i] = [st |-> "rejected", attempt |-> 0,
                                          judgment |-> NoJudgment, slots |-> 0],
                            !.verdicts[i] = MapperRejected(rq.claims[i])])

\* an attempt has thrown: pRetry waits before the next attempt while retries are
\* left, callSonar rejects otherwise and the mapper resolves to its catch branch
AttemptThrew(rq, i) ==
    IF rq.calls[i].attempt <= MAX_RETRIES
    THEN [rq EXCEPT !.calls[i].st = "backoff"]
    ELSE Handoff([rq EXCEPT !.calls[i] = [st |-> "rejected", attempt |-> 0,
                                          judgment |-> NoJudgment, slots |-> 0],
                            !.verdicts[i] = MapperRejected(rq.claims[i])])

Running(r, i) ==
    /\ req[r].pc = "verifying"
    /\ i \in 1..Len(req[r].calls)
    /\ req[r].calls[i].st = "running"

\* the oracle answers the fetch of call i with the body raw
OracleRespond(r, i, raw) ==
    /\ Running(r, i)
    /\ Faulty(raw) => faults < MaxFaults
    /\ req' = [req EXCEPT ![r] = IF AttemptOk(raw) THEN AttemptReturned(@, i, raw.content)
                                 ELSE AttemptThrew(@, i)]
    /\ faults' = IF Faulty(raw) THEN faults + 1 ELSE faults
    /\ UNCHANGED <<clicks, settings, session, badge>>
    /\ UNCHANGED <<splitVars, verdictVars, badgeVars, sonarVars, thresholdVars, determineVars, popupVars, contentVars>>

\* the fetch of call i rejects (network error)
OracleFail(r, i) ==
    /\ Running(r, i)
    /\ faults < MaxFaults
    /\ req' = [req EXCEPT ![r] = AttemptThrew(@, i)]
    /\ faults' = faults + 1
    /\ UNCHANGED <<clicks, settings, session, badge>>
    /\ UNCHANGED <<splitVars, verdictVars, badgeVars, sonarVars, thresholdVars, determineVars, popupVars, contentVars>>

\* REQUEST_TIMEOUT_MS after the fetch of call i: controller.abort()
OracleTimeout(r, i) ==
    /\ Running(r, i)
    /\ faults < MaxFaults
    /\ req' = [req EXCEPT ![r] = AttemptThrew(@, i)]
    /\ faults' = faults + 1
    /\ UNCHANGED <<clicks, settings, session, badge>>
    /\ UNCHANGED <<splitVars, verdictVars, badgeVars, sonarVars, thresholdVars, determineVars, popupVars, contentVars>>

\* the delay of pRetry has passed: the next attempt of call i
RetryTimer(r, i) ==
    /\ req[r].pc = "verifying"
    /\ i \in 1..Len(req[r].calls)
    /\ req[r].calls[i].st = "backoff"
    /\ req' = [req EXCEPT ![r].calls[i] =
                  [st |-> "running", attempt |-> @.attempt + 1, judgment |-> NoJudgment,
                   slots |-> @.slots]]
    /\ UNCHANGED <<clicks, settings, session, badge, faults>>
    /\ UNCHANGED <<splitVars, verdictVars, badgeVars, sonarVars, thresholdVars, determineVars, popupVars, contentVars>>

\* chrome.storage.session.set({ lastResult: result }) takes effect
StoreApplied(r) ==
    /\ req[r].store = "pending"
    /\ session' = [lastResult |-> AnalysisResult(req[r].tweetId, req[r].text,
                                                 req[r].claims, req[r].verdicts)]
    /\ req' = [req EXCEPT ![r] = Return([@ EXCEPT !.store = "done"])]
    /\ UNCHANGED <<clicks, settings, badge, faults>>
    /\ UNCHANGED <<splitVars, verdictVars, badgeVars, sonarVars, thresholdVars, determineVars, popupVars, contentVars>>

\* setGlobalBadge(getBadgeStatus(verdicts.map((v) => v.verdict))) takes effect
BadgeApplied(r) ==
    /\ req[r].badgeSet = "pending"
    /\ badge' = getBadgeStatus([i \in 1..Len(req[r].verdicts) |-> req[r].verdicts[i].verdict])
    /\ req' = [req EXCEPT ![r] = Return([@ EXCEPT !.badgeSet = "done"])]
    /\ UNCHANGED <<clicks, settings, session, faults>>
    /\ UNCHANGED <<splitVars, verdictVars, badgeVars, sonarVars, thresholdVars, determineVars, popupVars, contentVars>>

\* chrome.storage.session.set rejects (quota exceeded): Promise.all of the
\* hand-off rejects and the catch block runs, unless it has run already
StoreFailed(r) ==
    /\ req[r].store = "pending"
    /\ faults < MaxFaults
    /\ req' = [req EXCEPT ![r] = IF @.pc = "handoff" THEN Catch([@ EXCEPT !.store = "failed"])
                                 ELSE [@ EXCEPT !.store = "failed"]]
    /\ faults' = faults + 1
    /\ UNCHANGED <<clicks, settings, session, badge>>
    /\ UNCHANGED <<splitVars, verdictVars, badgeVars, sonarVars, thresholdVars, determineVars,
                   popupVars, contentVars>>

\* chrome.action.setBadgeText or setBadgeBackgroundColor rejects: Promise.all of
\* the hand-off rejects and the catch block runs, unless it has run already
BadgeFailed(r) ==
    /\ req[r].badgeSet = "pending"
    /\ faults < MaxFaults
    /\ req' = [req EXCEPT ![r] = IF @.pc = "handoff"
                                 THEN Catch([@ EXCEPT !.badgeSet = "failed"])
                                 ELSE [@ EXCEPT !.badgeSet = "failed"]]
    /\ faults' = faults + 1
    /\ UNCHANGED <<clicks, settings, session, badge>>
    /\ UNCHANGED <<splitVars, verdictVars, badgeVars, sonarVars, thresholdVars, determineVars,
                   popupVars, contentVars>>

\* chrome.tabs.sendMessage of the hand-off settles: it resolves, or it rejects (no
\* receiving end in the tab) and the catch block runs
MessageSettled(r, delivered) ==
    /\ req[r].pc = "handoff"
    /\ req[r].message = "pending"
    /\ req' = [req EXCEPT ![r] = IF delivered THEN Return([@ EXCEPT !.message = "done"])
                                 ELSE Catch(@)]
    /\ UNCHANGED <<clicks, settings, session, badge, faults>>
    /\ UNCHANGED <<splitVars, verdictVars, badgeVars, sonarVars, thresholdVars, determineVars, popupVars, contentVars>>

\* chrome.tabs.sendMessage of the catch block settles: the error is thrown again
\* and the listener calls sendResponse({ error })
FailNotified(r) ==
    /\ req[r].pc = "failNotify"
    /\ req' = [req EXCEPT ![r].pc = "failed", ![r].message = "done", ![r].response = "error"]
    /\ UNCHANGED <<clicks, settings, session, badge, faults>>
    /\ UNCHANGED <<splitVars, verdictVars, badgeVars, sonarVars, thresholdVars, determineVars, popupVars, contentVars>>

Next ==
    \/ \E r \in Requests : CheckTweet(r)
    \/ \E r \in Requests : ReadSettings(r)
    \/ \E r \in Requests, i \in 1..MAX_CLAIMS, raw \in OracleResponses : OracleRespond(r, i, raw)
    \/ \E r \in Requests, i \in 1..MAX_CLAIMS : OracleFail(r, i)
    \/ \E r \in Requests, i \in 1..MAX_CLAIMS : OracleTimeout(r, i)
    \/ \E r \in Requests, i \in 1..MAX_CLAIMS : RetryTimer(r, i)
    \/ \E r \in Requests : StoreApplied(r)
    \/ \E r \in Requests : BadgeApplied(r)
    \/ \E r \in Requests : StoreFailed(r)
    \/ \E r \in Requests : BadgeFailed(r)
    \/ \E r \in Requests, delivered \in BOOLEAN : MessageSettled(r, delivered)
    \/ \E r \in Requests : FailNotified(r)

Spec == Init /\ [][Next]_vars

\* every task that is pending in the worker, the browser or the oracle is run at
\* some time: all the steps but the user's clicks
Progress ==
    \/ \E r \in Requests : ReadSettings(r)
    \/ \E r \in Requests, i \in 1..MAX_CLAIMS, raw \in OracleResponses : OracleRespond(r, i, raw)
    \/ \E r \in Requests, i \in 1..MAX_CLAIMS : OracleFail(r, i)
    \/ \E r \in Requests, i \in 1..MAX_CLAIMS : OracleTimeout(r, i)
    \/ \E r \in Requests, i \in 1..MAX_CLAIMS : RetryTimer(r, i)
    \/ \E r \in Requests : StoreApplied(r)
    \/ \E r \in Requests : BadgeApplied(r)
    \/ \E r \in Requests : StoreFailed(r)
    \/ \E r \in Requests : BadgeFailed(r)
    \/ \E r \in Requests, delivered \in BOOLEAN : MessageSettled(r, delivered)
    \/ \E r \in Requests : FailNotified(r)

FairSpec == ShortInit /\ [][Next]_vars /\ WF_vars(Progress)

(***************************************************************************)
(* SpecDetermine: determineVerdict applied to truth strings and confidences *)
(***************************************************************************)
\* 'true', 'false', 'unknown', 'True', ' true' and ''
TruthInputs ==
    {sTrue, sFalse, <<"u","n","k","n","o","w","n">>, <<"T","r","u","e">>,
     <<" ","t","r","u","e">>, <<>>}

DetermineConfidences ==
    {Fin(v) : v \in (0 - 10)..MaxConfidence} \cup {NaN, PosInf, NegInf}

DetermineInit ==
    /\ dvTruth \in TruthInputs /\ dvConfidence \in DetermineConfidences
    /\ dvOut = "idle"
    /\ SplitIdle /\ VerdictIdle /\ BadgeIdle /\ WorkerIdle /\ SonarIdle /\ ThresholdIdle
    /\ PopupIdle /\ ContentIdle

\* result = determineVerdict(truth, confidence)
DetermineCall ==
    /\ dvOut = "idle"
    /\ dvOut' = determineVerdict(dvTruth, dvConfidence)
    /\ UNCHANGED <<dvTruth, dvConfidence>>
    /\ UNCHANGED <<splitVars, verdictVars, badgeVars, workerVars, sonarVars, thresholdVars,
                   popupVars, contentVars>>

DetermineNext == DetermineCall

SpecDetermine == DetermineInit /\ [][DetermineNext]_vars

(***************************************************************************)
(* SpecSonar: one call of callSonar, for every claim and credential a       *)
(* caller can pass and every answer of the oracle                          *)
(***************************************************************************)
\* the claim arguments: empty, whitespace only, and texts
SonarClaims ==
    {<<>>, <<" ">>, SnipBlank, SnipWord, claimsOfTweet[TweetOne.text][1],
     claimsOfTweet[TweetTwo.text][1], claimsOfTweet[TweetTwo.text][2]}

\* the apiKey arguments: undefined, '', 'pk-1', 'sk', ' sk-1', 'sk-' and 'sk-1'
SonarKeys ==
    {JsUndefined, JsString(<<>>), JsString(<<"p","k","-","1">>), JsString(<<"s","k">>),
     JsString(<<" ","s","k","-","1">>), JsString(sSkPrefix),
     JsString(<<"s","k","-","1">>)}

\* a confidence of 1.5
RawOverConfident == [RawTrue EXCEPT !.content.confidence = JsNumber(Fin(150))]
\* a label 'maybe'
RawOtherLabel == [RawTrue EXCEPT !.content.verdict = JsString(<<"m","a","y","b","e">>)]
\* an explanation ''
RawNoExplanation == [RawTrue EXCEPT !.content.explanation = JsString(<<>>)]
SonarResponses == OracleResponses \cup {RawOverConfident, RawOtherLabel, RawNoExplanation}

SonarInit ==
    /\ sonarClaim \in SonarClaims /\ sonarKey \in SonarKeys
    /\ sonarCall = NoCall /\ sonarFetches = 0
    /\ SplitIdle /\ VerdictIdle /\ BadgeIdle /\ WorkerIdle /\ ThresholdIdle /\ OthersIdle

\* the call as the only claim of a handler invocation
AsRequest(call, claim) ==
    [IdleRequest EXCEPT !.claims = <<claim>>, !.calls = <<call>>, !.verdicts = <<NoVerdict>>]

\* callSonar(claim, apiKey) is called and runs up to its first await
SonarCall ==
    /\ sonarCall = NoCall
    /\ sonarCall' = callSonar(sonarClaim, sonarKey)
    /\ sonarFetches' = IF sonarCall'.st = "running" THEN 1 ELSE 0
    /\ UNCHANGED <<sonarClaim, sonarKey>>
    /\ UNCHANGED <<splitVars, verdictVars, badgeVars, workerVars, thresholdVars, determineVars, popupVars, contentVars>>

\* the oracle answers the fetch with the body raw
SonarRespond(raw) ==
    /\ sonarCall.st = "running"
    /\ sonarCall' = IF AttemptOk(raw)
                    THEN AttemptReturned(AsRequest(sonarCall, sonarClaim), 1,
                                         raw.content).calls[1]
                    ELSE AttemptThrew(AsRequest(sonarCall, sonarClaim), 1).calls[1]
    /\ UNCHANGED <<sonarClaim, sonarKey, sonarFetches>>
    /\ UNCHANGED <<splitVars, verdictVars, badgeVars, workerVars, thresholdVars, determineVars, popupVars, contentVars>>

\* the fetch rejects (network error), or controller.abort() runs
\* REQUEST_TIMEOUT_MS after the fetch
SonarFail ==
    /\ sonarCall.st = "running"
    /\ sonarCall' = AttemptThrew(AsRequest(sonarCall, sonarClaim), 1).calls[1]
    /\ UNCHANGED <<sonarClaim, sonarKey, sonarFetches>>
    /\ UNCHANGED <<splitVars, verdictVars, badgeVars, workerVars, thresholdVars, determineVars, popupVars, contentVars>>

\* the delay of pRetry has passed: makeRequest is called again
SonarRetry ==
    /\ sonarCall.st = "backoff"
    /\ sonarCall' = [st |-> "running", attempt |-> sonarCall.attempt + 1,
                     judgment |-> NoJudgment, slots |-> sonarCall.slots]
    /\ sonarFetches' = sonarFetches + 1
    /\ UNCHANGED <<sonarClaim, sonarKey>>
    /\ UNCHANGED <<splitVars, verdictVars, badgeVars, workerVars, thresholdVars, determineVars, popupVars, contentVars>>

SonarNext ==
    \/ SonarCall
    \/ \E raw \in SonarResponses : SonarRespond(raw)
    \/ SonarFail
    \/ SonarRetry

SpecSonar == SonarInit /\ [][SonarNext]_vars

(***************************************************************************)
(* SpecThreshold: getConfidenceThreshold applied to every value the        *)
(* threshold entry of chrome.storage.sync can hold                         *)
(***************************************************************************)
\* '0.8'
sPointEight == <<"0",".","8">>

\* the values of the entry: absent, a string, a boolean, an array, and the
\* numbers from -MaxStored to MaxStored hundredths and the percent the Options
\* page saves; chrome.storage holds no NaN and no infinity
StoredValues ==
    {JsUndefined, JsString(sPointEight), JsBoolean(TRUE), JsArray(1)}
        \cup {JsNumber(Fin(v)) : v \in (0 - MaxStored)..MaxStored}
        \cup {JsNumber(Fin(100 * p)) : p \in {50, 80, 100}}

ThresholdInit ==
    /\ thStored \in StoredValues /\ thOut = NoThreshold /\ thSaved = <<>>
    /\ SplitIdle /\ VerdictIdle /\ BadgeIdle /\ WorkerIdle /\ SonarIdle /\ OthersIdle

\* threshold = await getConfidenceThreshold()
ThresholdCall ==
    /\ thOut = NoThreshold
    /\ thOut' = getConfidenceThreshold(thStored)
    /\ UNCHANGED <<thStored, thSaved>>
    /\ UNCHANGED <<splitVars, verdictVars, badgeVars, workerVars, sonarVars, determineVars, popupVars, contentVars>>

\* the values of the slider of the Options page: min 0, max 100, step 5
SliderValues == {5 * n : n \in 0..20}

\* the click on "Save" of the Options page with the slider at p percent:
\* chrome.storage.sync.set({ threshold: Number(thresholdInput.value) })
SaveThreshold(p) ==
    /\ thOut = NoThreshold
    /\ thStored' = JsNumber(Fin(100 * p))
    /\ thSaved' = <<p>>
    /\ UNCHANGED thOut
    /\ UNCHANGED <<splitVars, verdictVars, badgeVars, workerVars, sonarVars, determineVars,
                   popupVars, contentVars>>

ThresholdNext == ThresholdCall \/ \E p \in SliderValues : SaveThreshold(p)

SpecThreshold == ThresholdInit /\ [][ThresholdNext]_vars

(***************************************************************************)
(* SpecPopup: initPopup (popup/popup.ts) run on what the settings, the      *)
(* active tab and session storage can hold                                 *)
(***************************************************************************)
\* String.prototype.includes
Includes(s, p) == \E i \in 1..(Len(s) - Len(p) + 1) : SubSeq(s, i, i + Len(p) - 1) = p

sTwitterCom == <<"t","w","i","t","t","e","r",".","c","o","m">>

\* 'https://twitter.com/home', 'https://x.com/home' and 'https://example.org/'
UrlTwitter == <<"h","t","t","p","s",":","/","/">> \o sTwitterCom \o <<"/","h","o","m","e">>
UrlX == <<"h","t","t","p","s",":","/","/","x",".","c","o","m","/","h","o","m","e">>
UrlOther ==
    <<"h","t","t","p","s",":","/","/","e","x","a","m","p","l","e",".","o","r","g","/">>

\* tab.url of the active tab; undefined on a page the extension may not read
TabUrls == {JsUndefined, JsString(UrlTwitter), JsString(UrlX), JsString(UrlOther)}

\* the result handleCheckTweet assembles for the tweet tw when the oracle
\* answers raw for each of its claims
ResultFor(tw, raw) ==
    LET claims == claimsOfTweet[tw.text]
    IN  AnalysisResult(tw.tweetId, tw.text, claims,
            [i \in 1..Len(claims) |->
                MapperResolved(claims[i], makeRequestResult(claims[i], raw.content),
                               DEFAULT_CONFIDENCE_THRESHOLD)])

\* what the worker has left under lastResult: nothing, or the result of a tweet
StoredResults ==
    {NoResult} \cup {ResultFor(tw, raw) : tw \in {TweetOne, TweetTwo},
                                          raw \in {RawTrue, RawHardFalse}}

\* chrome.storage.session.get(key): the entry under key, undefined when the
\* storage has no such key
StorageGet(area, key) == IF key \in DOMAIN area THEN area[key] ELSE NoResult

\* the claim cards: createClaimCard(claim, result.verdicts[i].verdict)
ClaimCards(result) ==
    [i \in 1..Len(result.claims) |->
        [claim |-> result.claims[i], verdict |-> result.verdicts[i].verdict]]

\* initPopup after showState("loading"): the state shown in the end
initPopup(apiKey, url, area) ==
    IF ~(apiKey.t = "string" /\ StartsWith(apiKey.s, sSkPrefix))
    THEN [ClosedPopup EXCEPT !.state = "noApiKey"]
    ELSE IF ~(url.t = "string" /\ Includes(url.s, sTwitterCom))
    THEN [ClosedPopup EXCEPT !.state = "notOnTwitter"]
    ELSE LET result == StorageGet(area, "analysisResult")
         IN  IF result = NoResult THEN [ClosedPopup EXCEPT !.state = "notOnTwitter"]
             ELSE [state |-> "results", tweetText |-> result.text,
                   cards |-> ClaimCards(result)]

PopupInit ==
    /\ settings \in [apiKey : SonarKeys, threshold : {JsUndefined}]
    /\ session \in [lastResult : StoredResults]
    /\ tabUrl \in TabUrls
    /\ popup = ClosedPopup
    /\ clicks = <<>> /\ req = [r \in Requests |-> IdleRequest] /\ badge = "null"
    /\ faults = 0
    /\ SplitIdle /\ VerdictIdle /\ BadgeIdle /\ SonarIdle /\ ThresholdIdle
    /\ DetermineIdle /\ ContentIdle

\* the user opens the popup: initPopup starts with showState("loading")
OpenPopup ==
    /\ popup.state = "closed"
    /\ popup' = [popup EXCEPT !.state = "loading"]
    /\ UNCHANGED <<tabUrl, workerVars>>
    /\ UNCHANGED <<splitVars, verdictVars, badgeVars, sonarVars, thresholdVars, determineVars,
                   contentVars>>

\* the reads of initPopup have returned: the state it ends in
PopupLoaded ==
    /\ popup.state = "loading"
    /\ popup' = initPopup(settings.apiKey, tabUrl, session)
    /\ UNCHANGED <<tabUrl, workerVars>>
    /\ UNCHANGED <<splitVars, verdictVars, badgeVars, sonarVars, thresholdVars, determineVars,
                   contentVars>>

PopupNext == OpenPopup \/ PopupLoaded

SpecPopup == PopupInit /\ [][PopupNext]_vars

(***************************************************************************)
(* SpecContent: the content script (content/inject.ts) on a page of         *)
(* MaxTweets tweets                                                        *)
(***************************************************************************)
PageTweets == 1..MaxTweets

\* getTweetId(tweet) and getTweetText(tweet) are not null; tweet 1 has no text
HasContent(t) == t > 1

\* createButton(): no status and no loading flag yet
NewButton == [status |-> "", loading |-> FALSE]

\* updateButton(button, status, loading), with null as ""
updateButton(status, loading) == [status |-> status, loading |-> loading]

ContentInit ==
    /\ buttons = <<>> /\ analysing = {}
    /\ SplitIdle /\ VerdictIdle /\ BadgeIdle /\ WorkerIdle /\ SonarIdle /\ ThresholdIdle
    /\ DetermineIdle /\ PopupIdle

\* the observer sees tweet t: injectButton, unless the tweet has a button
InjectButton(t) ==
    /\ t \notin DOMAIN buttons
    /\ buttons' = [u \in DOMAIN buttons \cup {t} |->
                        IF u = t THEN NewButton ELSE buttons[u]]
    /\ UNCHANGED analysing
    /\ UNCHANGED <<splitVars, verdictVars, badgeVars, workerVars, sonarVars, thresholdVars,
                   determineVars, popupVars>>

\* handleButtonClick(button, tweet) up to its await: a toast when there is
\* nothing to check, else the button is loading and checkTweet is sent
ButtonClick(t) ==
    /\ t \in DOMAIN buttons
    /\ t \notin analysing
    /\ IF ~HasContent(t) THEN UNCHANGED <<buttons, analysing>>
       ELSE /\ buttons' = [buttons EXCEPT ![t] = updateButton("", TRUE)]
            /\ analysing' = analysing \cup {t}
    /\ UNCHANGED <<splitVars, verdictVars, badgeVars, workerVars, sonarVars, thresholdVars,
                   determineVars, popupVars>>

\* chrome.runtime.sendMessage of handleButtonClick rejects: the catch block
SendRejected(t) ==
    /\ t \in analysing
    /\ buttons' = [buttons EXCEPT ![t] = updateButton("error", FALSE)]
    /\ analysing' = analysing \ {t}
    /\ UNCHANGED <<splitVars, verdictVars, badgeVars, workerVars, sonarVars, thresholdVars,
                   determineVars, popupVars>>

\* the listener gets message m: every .cm-btn button is updated
onMessage(m) ==
    IF m.type # "analysisComplete" THEN buttons
    ELSE [u \in DOMAIN buttons |->
            updateButton(IF m.success THEN "success" ELSE "error", FALSE)]

\* the analysis of tweet t is over: the worker's analysisComplete message
\* arrives
AnalysisComplete(t, success) ==
    /\ t \in analysing
    /\ buttons' = onMessage(analysisCompleteMessage(success))
    /\ analysing' = analysing \ {t}
    /\ UNCHANGED <<splitVars, verdictVars, badgeVars, workerVars, sonarVars, thresholdVars,
                   determineVars, popupVars>>

ContentNext ==
    \/ \E t \in PageTweets : InjectButton(t)
    \/ \E t \in PageTweets : ButtonClick(t)
    \/ \E t \in PageTweets : SendRejected(t)
    \/ \E t \in PageTweets, success \in BOOLEAN : AnalysisComplete(t, success)

SpecContent == ContentInit /\ [][ContentNext]_vars

(***************************************************************************)
(* Properties of the background worker                                     *)
(***************************************************************************)
\* the oracle calls whose fetch is outstanding
InFlight == {<<r, i>> \in Requests \X (1..MAX_CLAIMS) :
                i <= Len(req[r].calls) /\ req[r].calls[i].st = "running"}

\* the requests whose result has been assembled
Assembled == {r \in Requests : req[r].store # "none"}

\* C1: at every instant at most 3 oracle calls are in flight in the whole worker,
\* for the claims of one request and for the claims of concurrent requests.
C1_AtMostThreeInFlight == Cardinality(InFlight) <= MAX_CONCURRENT_REQUESTS

\* C2: the result assembled for a request with n claims holds n verdicts; a claim
\* whose call failed terminally has verdict "unclear", no citation and confidence 0;
\* a claim whose call returned a judgment has the verdict of that judgment, whatever
\* happened to its siblings.
C2_FailureIsolated ==
    \A r \in Assembled :
        LET rq == req[r]
        IN  /\ Len(rq.claims) >= 1
            /\ Len(rq.verdicts) = Len(rq.claims)
            /\ \A i \in 1..Len(rq.claims) :
                  /\ rq.calls[i].st \in {"resolved", "rejected"}
                  /\ rq.calls[i].st = "rejected" =>
                        /\ rq.verdicts[i].verdict = "unclear"
                        /\ rq.verdicts[i].citations = JsArray(0)
                        /\ rq.verdicts[i].confidence = JsNumber(Fin(0))
                  /\ rq.calls[i].st = "resolved" =>
                        LET v == getVerdict(rq.calls[i].judgment, rq.threshold)
                        IN  rq.verdicts[i].verdict = IF v = "TypeError" THEN "unclear" ELSE v

\* a result with a terminally failed claim next to a sibling judged "true" or "false"
C2_Witness ==
    \E r \in Assembled :
        \E i, j \in 1..Len(req[r].claims) :
            /\ req[r].calls[i].st = "rejected"
            /\ req[r].calls[j].st = "resolved"
            /\ req[r].verdicts[j].verdict \in {"true", "false"}
            /\ req[r].pc = "done"

\* C3: in the assembled result verdicts is as long as claims and verdicts[i].claim
\* is claims[i], whatever the order in which the oracle calls completed.
C3_VerdictsFollowClaims ==
    \A r \in Assembled :
        /\ Len(req[r].verdicts) = Len(req[r].claims)
        /\ \A i \in 1..Len(req[r].claims) :
              req[r].verdicts[i].claim = JsString(req[r].claims[i])

\* C4: every checkTweet message received leads to an analysisComplete message
\* sent to the tab it came from, on success and on whole-request failure.
C4_CompletionSignal ==
    \A r \in Requests : (req[r].pc # "idle") ~> (req[r].sent # <<>>)

\* a request that failed as a whole (no claim found) has been signalled, and
\* another one has completed and has been signalled
C4_Witness ==
    \E r, q \in Requests :
        /\ req[r].pc = "failed" /\ req[r].claims = <<>> /\ req[r].sent = <<FALSE>>
        /\ req[q].pc = "done" /\ req[q].sent = <<TRUE>>


(***************************************************************************)
(* Properties of getBadgeStatus, getVerdict and splitIntoClaims            *)
(***************************************************************************)
Count(s, P(_)) == Cardinality({i \in 1..Len(s) : P(s[i])})

\* C5: the aggregate status of a verdict list is none iff the list is empty,
\* negative iff some verdict is "false", positive iff the list is not empty and
\* every verdict is "true", neutral in every other case.
C5_AggregateStatus ==
    badgeOut \notin {"pending", "idle"} =>
        LET anyFalse == \E i \in 1..Len(badgeIn) : badgeIn[i] = "false"
            allTrue == \A i \in 1..Len(badgeIn) : badgeIn[i] = "true"
        IN  /\ badgeOut \in {"null", "error", "success", "unclear"}
            /\ (badgeOut = "null") <=> (Len(badgeIn) = 0)
            /\ (badgeOut = "error") <=> anyFalse
            /\ (badgeOut = "success") <=> (Len(badgeIn) > 0 /\ allTrue)
            /\ (badgeOut = "unclear") <=> (Len(badgeIn) > 0 /\ ~anyFalse /\ ~allTrue)

\* a single "false" among several "true" and an "unclear" gives the negative status
C5_Witness ==
    /\ badgeOut = "error"
    /\ Count(badgeIn, LAMBDA v : v = "false") = 1
    /\ Count(badgeIn, LAMBDA v : v = "true") >= 2
    /\ Count(badgeIn, LAMBDA v : v = "unclear") >= 1

\* the label of gvRaw after trim and lowercase, <<>> for a label that is no string
NormalizedLabel == IF gvRaw.verdict.t = "string" THEN ToLowerCase(Trim(gvRaw.verdict.s)) ELSE <<>>

\* the hard-false override applies to gvRaw: label "false" and 3 or more citations
OverrideApplies ==
    /\ gvRaw.verdict.t = "string" /\ NormalizedLabel = <<"f","a","l","s","e">>
    /\ gvRaw.citations.t = "array" /\ gvRaw.citations.n.v >= 3

\* gvRaw.confidence < min(max(gvThreshold, 0), 1), as numbers
BelowClampedThreshold ==
    /\ gvRaw.confidence.t = "number"
    /\ Lt(gvRaw.confidence.n, MathMin(MathMax(gvThreshold, Fin(0)), Fin(100)))

\* C6: a judgment whose label normalizes to "false" and that carries 3 or more
\* citations gets the verdict "false", whatever its confidence and the threshold.
C6_HardFalseOverride ==
    (gvOut \notin {"pending", "idle"} /\ OverrideApplies) => gvOut = "false"

\* the override has decided a judgment whose confidence is below the threshold
C6_Witness ==
    /\ gvOut = "false" /\ OverrideApplies /\ BelowClampedThreshold
    /\ gvRaw.verdict.s # <<"f","a","l","s","e">>

\* a judgment as parseResponse lets it through: a truthy label, a citation
\* array, a confidence of type number
DeliveredByOracle ==
    /\ Truthy(gvRaw.verdict)
    /\ gvRaw.citations.t = "array"
    /\ gvRaw.confidence.t = "number"

\* C7: when the override does not apply, a confidence below the clamped
\* threshold gives "unclear" whatever the label, and a threshold outside [0,1]
\* behaves like the nearest bound of [0,1] (stated of the judgments the oracle
\* can deliver whose label is a string).
C7_ConfidenceGuard ==
    (gvOut \notin {"pending", "idle"} /\ DeliveredByOracle /\ gvRaw.verdict.t = "string") =>
        /\ (~OverrideApplies /\ BelowClampedThreshold) => gvOut = "unclear"
        /\ Lt(gvThreshold, Fin(0)) => gvOut = getVerdict(gvRaw, Fin(0))
        /\ Lt(Fin(100), gvThreshold) => gvOut = getVerdict(gvRaw, Fin(100))

\* C8: getVerdict returns one of "true", "false", "unclear" for every judgment
\* the oracle can deliver and never fails; a label that normalizes to none of
\* the three gives "unclear".
C8_Total ==
    (gvOut \notin {"pending", "idle"} /\ DeliveredByOracle) =>
        /\ gvOut \in {"true", "false", "unclear"}
        /\ NormalizedLabel \notin {<<"t","r","u","e">>, <<"f","a","l","s","e">>,
                                   <<"u","n","c","l","e","a","r">>}
              => gvOut = "unclear"

\* C9: splitIntoClaims returns at most 5 claims, each of 10 characters or more.
C9_CountAndLength ==
    splitDone =>
        /\ Len(splitOut) <= 5
        /\ \A i \in 1..Len(splitOut) : Len(splitOut[i]) >= 10

\* a text with short fragments and more than 5 candidates has been split
C9_Witness ==
    /\ splitDone /\ Len(splitOut) = 5
    /\ Len(Filtered(splitText)) > 5
    /\ Len(RawSentences(splitText)) > Len(Filtered(splitText))

\* a is b with some elements left out: the elements of a, in order, are found
\* in b from index j on
RECURSIVE SubsequenceFrom(_, _, _, _)
SubsequenceFrom(a, i, b, j) ==
    IF i > Len(a) THEN TRUE
    ELSE IF j > Len(b) THEN FALSE
    ELSE IF a[i] = b[j] THEN SubsequenceFrom(a, i + 1, b, j + 1)
    ELSE SubsequenceFrom(a, i, b, j + 1)

IsSubsequence(a, b) == SubsequenceFrom(a, 1, b, 1)

\* the length of the shortest element of a non-empty list
ShortestLen(s) == CHOOSE n \in {Len(s[i]) : i \in 1..Len(s)} : \A i \in 1..Len(s) : n <= Len(s[i])

\* every candidate strictly longer than some returned claim is returned himself:
\* as many candidates as returned claims are longer than the shortest returned one
NoLongerOmitted(out, candidates) ==
    Count(candidates, LAMBDA c : Len(c) > ShortestLen(out))
        = Count(out, LAMBDA c : Len(c) > ShortestLen(out))

\* C10: from more than 5 candidates of length >= 10 exactly 5 are returned, no
\* omitted one strictly longer than a returned one; for every input the output
\* is a subsequence of the candidates, in the order of the source text.
C10_KeepLongestInOrder ==
    splitDone =>
        LET candidates == SelectSeq(RawSentences(splitText), LAMBDA c : Len(c) >= 10)
        IN  /\ IsSubsequence(splitOut, candidates)
            /\ Len(candidates) > 5 =>
                  /\ Len(splitOut) = 5
                  /\ NoLongerOmitted(splitOut, candidates)

\* a candidate has been dropped from the middle: the claims returned are neither
\* the first 5 nor the last 5 candidates
C10_Witness ==
    /\ splitDone
    /\ LET candidates == Filtered(splitText)
       IN  /\ Len(candidates) > 5
           /\ Len(splitOut) = 5
           /\ splitOut # SubSeq(candidates, 1, 5)
           /\ splitOut # SubSeq(candidates, Len(candidates) - 4, Len(candidates))


(***************************************************************************)
(* Properties of the sentence scan of splitIntoClaims                      *)
(***************************************************************************)
\* the index in cleaned of the last character of each of the first n sentences,
\* read off the sentences themselves: a sentence starts right after the previous
\* one, or one space further
RECURSIVE SentenceEnds(_, _, _)
SentenceEnds(cleaned, raw, n) ==
    IF n = 0 THEN <<>>
    ELSE LET ends == SentenceEnds(cleaned, raw, n - 1)
             prev == IF n = 1 THEN 0 ELSE ends[n - 1]
             start == IF prev + 1 <= Len(cleaned) /\ cleaned[prev + 1] = " "
                      THEN prev + 2 ELSE prev + 1
         IN  Append(ends, start + Len(raw[n]) - 1)

\* the sentence boundaries inside the text: the ends before the last character
InnerBoundaries(text) ==
    LET cleaned == Cleaned(text)
        raw == RawSentences(text)
        ends == SentenceEnds(cleaned, raw, Len(raw))
    IN  {ends[j] : j \in 1..Len(ends)} \ {Len(cleaned)}

\* the word that ends at index e: the run of non-space characters up to e
TrailingWord(cleaned, e) ==
    LET gaps == {i \in 1..e : cleaned[i] = " "}
        first == IF gaps = {} THEN 1
                 ELSE 1 + CHOOSE i \in gaps : \A j \in gaps : j <= i
    IN  SubSeq(cleaned, first, e)

\* C11: a period whose trailing word, period included and in lower case, is in
\* the abbreviation set never ends a sentence inside the text.
C11_AbbreviationNeverEnds ==
    splitDone =>
        \A e \in InnerBoundaries(splitText) :
            ToLowerCase(TrailingWord(Cleaned(splitText), e)) \notin ABBREVIATIONS

\* s ends with digits, a dot, digits
EndsWithDecimal(s) ==
    \E d \in 2..(Len(s) - 1) :
        /\ s[d] = "."
        /\ s[d - 1] \in Digits
        /\ \A j \in (d + 1)..Len(s) : s[j] \in Digits

\* C12: a terminator that comes right after a decimal number ("3.14" and then a
\* period) does not end a sentence: the sentence goes on with the text that
\* follows.
C12_DecimalSuppressesSplit ==
    splitDone =>
        LET cleaned == Cleaned(splitText)
        IN  \A e \in InnerBoundaries(splitText) :
                ~EndsWithDecimal(SubSeq(cleaned, 1, e - 1))


IsBlank(text) == \A i \in 1..Len(text) : IsSpace(text[i])

HasTerminator(text) == \E i \in 1..Len(text) : IsTerminator(text[i])

\* C13 as stated: an empty or whitespace-only text gives the empty list, and
\* every non-blank text with none of '.', '!', '?' gives exactly one claim,
\* the whole text with whitespace runs collapsed and the ends trimmed
C13_WholeTextIsOneClaim ==
    splitDone =>
        /\ IsBlank(splitText) => splitOut = <<>>
        /\ (~IsBlank(splitText) /\ ~HasTerminator(splitText)) =>
               splitOut = <<Cleaned(splitText)>>

\* C13 amended: an empty or whitespace-only text gives the empty list; a
\* non-blank text with none of '.', '!', '?' gives its collapsed and trimmed
\* form as the single claim when that form has at least 10 characters, and
\* the empty list when it is shorter
C13_WholeTextIfLongEnough ==
    splitDone =>
        /\ IsBlank(splitText) => splitOut = <<>>
        /\ (~IsBlank(splitText) /\ ~HasTerminator(splitText)) =>
               splitOut = IF Len(Cleaned(splitText)) >= MIN_CLAIM_LENGTH
                          THEN <<Cleaned(splitText)>> ELSE <<>>

\* a text of several terminator-free snippets, with a whitespace run to
\* collapse, returned as one claim
C13_Witness ==
    /\ splitDone /\ splitCount >= 3
    /\ ~IsBlank(splitText) /\ ~HasTerminator(splitText)
    /\ Len(Cleaned(splitText)) + 2 < Len(splitText)
    /\ splitOut = <<Cleaned(splitText)>>

(***************************************************************************)
(* Properties of the Sonar client                                          *)
(***************************************************************************)
\* the fetch of call i of request r fails: transport error, non-success HTTP
\* status, deadline, or a payload parseResponse throws on
AttemptFails(r, i) ==
    \/ OracleFail(r, i)
    \/ OracleTimeout(r, i)
    \/ \E raw \in OracleResponses : ~AttemptOk(raw) /\ OracleRespond(r, i, raw)

\* the fetch of call i of request r succeeds
AttemptSucceeds(r, i) ==
    \E raw \in OracleResponses : AttemptOk(raw) /\ OracleRespond(r, i, raw)

\* the steps of one oracle call
RetrySteps(r, i) ==
    LET c == req[r].calls[i]
        d == req'[r].calls[i]
    IN  /\ d.attempt <= 3
        /\ AttemptSucceeds(r, i) => d.st = "resolved"
        /\ AttemptFails(r, i) =>
              IF c.attempt < 3
              THEN /\ d.st = "backoff" /\ d.attempt = c.attempt
                   /\ (ENABLED RetryTimer(r, i))'
              ELSE d.st = "rejected"
        /\ (c.st = "backoff" /\ d # c) => (d.st = "running" /\ d.attempt = c.attempt + 1)
        /\ c.st \in {"resolved", "rejected"} => d = c

KeyBeginsSk(key) ==
    /\ key.t = "string" /\ Len(key.s) >= 3
    /\ key.s[1] = "s" /\ key.s[2] = "k" /\ key.s[3] = "-"

\* C15: callSonar given an empty or whitespace-only claim, or a credential that
\* does not begin with 'sk-', fails at once and makes no network call.
C15_InvalidInputFailsOffline ==
    (sonarCall # NoCall /\ (IsBlank(sonarClaim) \/ ~KeyBeginsSk(sonarKey))) =>
        (sonarCall.st = "rejected" /\ sonarFetches = 0)

\* a whitespace-only claim passed with a credential of the right form
C15_Witness ==
    /\ sonarCall.st = "rejected" /\ sonarFetches = 0
    /\ sonarClaim # <<>> /\ IsBlank(sonarClaim) /\ KeyBeginsSk(sonarKey)


\* C16: a judgment callSonar returns has a label among 'true', 'false' and
\* 'unclear' (in any letter case, spaces around it aside), a non-empty rationale, a citation list and a numeric confidence
\* within [0, 1]; an answer breaking any of these is a failed attempt.
C16_JudgmentWellFormed ==
    sonarCall.st = "resolved" =>
        LET j == sonarCall.judgment
        IN  /\ j.verdict.t = "string"
            /\ ToLowerCase(Trim(j.verdict.s)) \in {sTrue, sFalse, sUnclear}
            /\ j.explanation.t = "string" /\ Len(j.explanation.s) > 0
            /\ j.citations.t = "array"
            /\ j.confidence.t = "number" /\ j.confidence.n.k = "fin"
            /\ 0 <= j.confidence.n.v /\ j.confidence.n.v <= 100


(***************************************************************************)
(* Properties of whole requests                                            *)
(***************************************************************************)
\* the requests whose settings have been read and whose text has been split
Split == {r \in Requests : req[r].pc \notin {"idle", "settings"}}

\* C17: a request whose text yields no claim fails as a whole: no oracle call is
\* made for it, no AnalysisResult of it is stored, and its completion signal
\* carries failure.
C17_NoClaimsFails ==
    \A r \in Split :
        claimsOfTweet[req[r].text] = <<>> =>
            /\ req[r].pc \in {"failNotify", "failed"}
            /\ req[r].calls = <<>>
            /\ req[r].store = "none" /\ session.lastResult.tweetId # req[r].tweetId
            /\ req[r].sent = <<FALSE>>

\* a request with a credential and no claim has failed and nothing is stored
C17_Witness ==
    \E r \in Requests :
        /\ req[r].pc = "failed" /\ req[r].text = TweetNone.text
        /\ getApiKeyOk(settings.apiKey)
        /\ req[r].sent = <<FALSE>> /\ session.lastResult = NoResult


\* C18: a request is signalled as failed only when its text yields no claim or
\* the credential is missing or invalid; with a valid credential and at least
\* one claim no completion message with success = false is sent, whatever
\* happens to the oracle calls and to the steps of the hand-off.
C18_OnlyTwoFailureCauses ==
    \A r \in Split :
        (getApiKeyOk(settings.apiKey) /\ claimsOfTweet[req[r].text] # <<>>) =>
            \A k \in 1..Len(req[r].sent) : req[r].sent[k] = TRUE


(***************************************************************************)
(* Properties of getConfidenceThreshold                                    *)
(***************************************************************************)
\* the number v, in hundredths, brought into [0.5, 0.9]
Clamped(v) == IF v < 50 THEN 50 ELSE IF v > 90 THEN 90 ELSE v

\* C19: whatever the settings store holds, the threshold handed to the resolver
\* lies in [0.5, 0.9]: a stored number is clamped to that interval, and without
\* a stored number the threshold is 0.7.
C19_ThresholdInRange ==
    thOut # NoThreshold =>
        /\ thOut.k = "fin" /\ 50 <= thOut.v /\ thOut.v <= 90
        /\ thStored.t = "number" => thOut.v = Clamped(thStored.n.v)
        /\ thStored.t # "number" => thOut.v = 70

\* the percent the Options page saves has been clamped down to 0.9
C19_Witness ==
    thStored = JsNumber(Fin(8000)) /\ thOut = Fin(90)


\* C20: the analysisComplete message of a successful request is sent only after
\* the AnalysisResult of that request has been written to session storage: when
\* the message has arrived, the write of the result has taken effect.
C20_StoredBeforeSignal ==
    \A r \in Requests :
        (req[r].sent = <<TRUE>> /\ req[r].message = "done") => req[r].store = "done"


(***************************************************************************)
(* Properties of the completion message and of session storage             *)
(***************************************************************************)
\* C21: every completion message carries the identifier of the request it
\* completes together with the success flag.
C21_SignalNamesRequest ==
    \A r \in Requests : \A k \in 1..Len(req[r].sent) :
        LET m == analysisCompleteMessage(req[r].sent[k])
        IN  /\ "success" \in DOMAIN m
            /\ "tweetId" \in DOMAIN m
            /\ m.tweetId = req[r].tweetId


\* the AnalysisResult of request r
ResultOf(r) ==
    AnalysisResult(req[r].tweetId, req[r].text, req[r].claims, req[r].verdicts)

\* requests r and q are for the same context: the same tweet in the same tab
SameContext(r, q) == req[r].tab = req[q].tab /\ req[r].tweetId = req[q].tweetId

\* C22: stored results are keyed by request/tab identity: the stored result of
\* a request is still in storage unless a request for the same context has
\* replaced it; completing the analysis of another tweet or tab leaves it.
C22_KeyedByContext ==
    \A r \in Requests :
        req[r].store = "done" =>
            \/ session.lastResult = ResultOf(r)
            \/ \E q \in Requests \ {r} :
                  /\ SameContext(r, q) /\ req[q].store = "done"
                  /\ session.lastResult = ResultOf(q)


(***************************************************************************)
(* Properties of the limiter of a call                                     *)
(***************************************************************************)
\* the calls of the worker
Calls == {<<r, i>> \in Requests \X (1..MAX_CLAIMS) : i <= Len(req[r].calls)}

\* the calls that hold a slot of their limiter
SlotHolders == {c \in Calls : req[c[1]].calls[c[2]].slots > 0}

\* a call holds one slot from before its first attempt, over its retries, and
\* none once it has succeeded or failed for good
SlotsFollowCalls ==
    \A c \in Calls :
        LET call == req[c[1]].calls[c[2]]
        IN  /\ call.st \in {"running", "backoff"} => call.slots = 1
            /\ call.st \in {"resolved", "rejected"} => call.slots = 0

ClampedBelow75(confidence) ==
    \/ confidence.k = "ninf"
    \/ confidence.k = "fin" /\ confidence.v < 75

\* C24: determineVerdict clamps the confidence to [0, 100] and returns 'unclear'
\* whenever the clamped confidence is below 75; otherwise it returns 'true' for
\* the truth 'true', 'false' for the truth 'false' and 'unclear' for every other
\* truth string.
C24_DetermineVerdict ==
    dvOut # "idle" =>
        dvOut = IF ClampedBelow75(dvConfidence) THEN "unclear"
                ELSE IF dvTruth = <<"t","r","u","e">> THEN "true"
                ELSE IF dvTruth = <<"f","a","l","s","e">> THEN "false"
                ELSE "unclear"

\* the truth 'false' at the confidence 75 itself is kept
C24_Witness ==
    dvTruth = sFalse /\ dvConfidence = Fin(75) /\ dvOut = "false"


\* C25: the threshold saved on the Options page is the threshold the pipeline
\* applies: after the slider value p (in percent) has been saved, the threshold
\* handed to the resolver is p/100 brought into [0.5, 0.9].
C25_SavedThresholdApplies ==
    (thSaved # <<>> /\ thOut # NoThreshold) => thOut = Fin(Clamped(thSaved[1]))


\* position e of the text holds the decimal point of a number: a '.' between
\* two digits
DecimalPointAt(cleaned, e) ==
    /\ 1 < e /\ e < Len(cleaned)
    /\ cleaned[e] = "." /\ cleaned[e - 1] \in Digits /\ cleaned[e + 1] \in Digits

\* C26: a '.' that stands between two digits is never taken as a sentence
\* boundary: no candidate sentence ends at the decimal point of a number.
C26_DecimalPointNeverEnds ==
    splitDone =>
        \A e \in InnerBoundaries(splitText) : ~DecimalPointAt(Cleaned(splitText), e)


\* C27: at most one completion message is sent for a checkTweet request, never
\* one with success = true and one with success = false, also when a step of
\* the hand-off fails after the verdicts were computed.
C27_OneCompletionMessage ==
    \A r \in Requests : Len(req[r].sent) <= 1


(***************************************************************************)
(* Properties of the popup                                                 *)
(***************************************************************************)
\* C28: once the worker has stored a result, the popup opened with a valid API
\* key on a twitter.com tab ends in the state 'results' and shows the stored
\* result.
C28_PopupShowsStoredResult ==
    (/\ popup.state \notin {"closed", "loading"}
     /\ getApiKeyOk(settings.apiKey)
     /\ tabUrl.t = "string" /\ Includes(tabUrl.s, sTwitterCom)
     /\ session.lastResult # NoResult)
        => (popup.state = "results" /\ popup.tweetText = session.lastResult.text)


(***************************************************************************)
(* Properties of the badge                                                 *)
(***************************************************************************)
\* every checkTweet message of the session has been processed successfully
AllSucceeded == \A r \in 1..Len(clicks) : req[r].pc = "done"

\* C29: when the concurrent requests have all completed successfully, the badge
\* shows the aggregate status of the verdicts of the result in session storage.
C29_BadgeMatchesStoredResult ==
    (Len(clicks) >= 2 /\ AllSucceeded) =>
        badge = getBadgeStatus([i \in 1..Len(session.lastResult.verdicts) |->
                                    session.lastResult.verdicts[i].verdict])


(***************************************************************************)
(* Properties of the content script                                        *)
(***************************************************************************)
\* C30: an analysisComplete message changes only the button of the tweet whose
\* analysis completed: the button of a tweet that is still being analysed
\* stays loading, with no status.
C30_OnlyCompletedButtonChanges ==
    \A t \in analysing : buttons[t].loading /\ buttons[t].status = ""


============================================================================
